---- MODULE Spec2Model ----
(***************************************************************************)
(* The User API of scratch/shared/src/users.rs: an Actix scope "/users"    *)
(* wrapped by AuthGuard, with the handlers list_users, get_user and        *)
(* create_user over a PostgreSQL table "users"; and Level::new of           *)
(* scratch/shared/shared_models/src/level.rs.                              *)
(*                                                                         *)
(* Text is a sequence of one-character strings, an Option is a sequence of *)
(* at most one element (<<>> is None, <<x>> is Some(x)).                   *)
(***************************************************************************)
EXTENDS Integers, Sequences, FiniteSets, Bags, TLC

VARIABLES env, users, req, sent, issued, level

vars == <<env, users, req, sent, issued, level>>

\* ------------------------------------------------------------------ bounds

\* Requests that may be in flight at once.
MaxInFlight == 2
\* Rows the users table may come to hold (the identifiers the store can draw).
MaxUsers == 2
\* Distinct values of NOW() the store may assign.
MaxTime == 2
\* The largest width and height Level::new is called with.
MaxDim == 4

Ids == 1..MaxUsers
Times == 1..MaxTime

\* -------------------------------------------------------------------- text

None == <<>>
Some(x) == <<x>>

\* Characters Rust's char::is_whitespace accepts (str::trim, regex \s).
Whitespace == {" ", "\t"}
\* A byte outside visible ASCII: HeaderValue::to_str refuses it.
NonAscii == {"U+00E9"}

StartsWith(s, p) == Len(s) >= Len(p) /\ SubSeq(s, 1, Len(p)) = p

\* &s[n..]: the text after the first n characters.
From(s, n) == SubSeq(s, n + 1, Len(s))

RECURSIVE TrimStart(_)
TrimStart(s) ==
    IF s # <<>> /\ Head(s) \in Whitespace THEN TrimStart(Tail(s)) ELSE s

RECURSIVE TrimEnd(_)
TrimEnd(s) ==
    IF s # <<>> /\ s[Len(s)] \in Whitespace
    THEN TrimEnd(SubSeq(s, 1, Len(s) - 1))
    ELSE s

\* str::trim
Trim(s) == TrimEnd(TrimStart(s))

\* HeaderValue::to_str: Ok(s) when every byte is visible ASCII, else Err.
ToStr(bytes) ==
    IF \A i \in 1..Len(bytes) : bytes[i] \notin NonAscii THEN Some(bytes) ELSE None

\* ------------------------------------------------------------- validation

NAME_MIN_LEN == 1

\* One character of the class [^\s@] of EMAIL_REGEX.
EmailClass(c) == c \notin Whitespace /\ c # "@"

\* s[a..b] is a non-empty run of [^\s@] characters: [^\s@]+
ClassRun(s, a, b) == a <= b /\ \A k \in a..b : EmailClass(s[k])

\* The pattern without its "\." part: ^[^\s@]+@[^\s@]+$
EmailMatch_no_dot(s) ==
    \E i \in 1..Len(s) :
        ClassRun(s, 1, i - 1) /\ s[i] = "@" /\ ClassRun(s, i + 1, Len(s))

\* EMAIL_REGEX.is_match for ^[^\s@]+@[^\s@]+\.[^\s@]+$ : the places i of the
\* "@" and j of the "\." the regex engine may choose.
EmailMatch(s) ==
    \E i \in 1..Len(s) :
        \E j \in 1..Len(s) :
            /\ i < j
            /\ ClassRun(s, 1, i - 1)
            /\ s[i] = "@"
            /\ ClassRun(s, i + 1, j - 1)
            /\ s[j] = "."
            /\ ClassRun(s, j + 1, Len(s))

\* validate_new_user returning at its first violation.
validate_new_user_first_only(input) ==
    IF Len(Trim(input.name)) < NAME_MIN_LEN THEN <<"name_required">>
    ELSE IF ~EmailMatch(input.email) THEN <<"email_invalid">>
    ELSE <<>>

\* validate_new_user: the Err list, <<>> for Ok(()).
validate_new_user(input) ==
    LET e1 == IF Len(Trim(input.name)) < NAME_MIN_LEN
              THEN <<"name_required">>
              ELSE <<>>
        e2 == IF ~EmailMatch(input.email) THEN <<"email_invalid">> ELSE <<>>
    IN  e1 \o e2

\* ---------------------------------------------------------------- auth gate

Bearer == <<"B", "e", "a", "r", "e", "r", " ">>

\* The hard-coded token "test-token".
TestToken == <<"t", "e", "s", "t", "-", "t", "o", "k", "e", "n">>

\* The process environment's AUTH_TOKEN: not set, set to text, or set to bytes
\* that are not Unicode.
Unset == [tag |-> "unset", val |-> <<>>]
Unicode(v) == [tag |-> "unicode", val |-> v]
NotUnicode == [tag |-> "notunicode", val |-> <<>>]

\* std::env::var("AUTH_TOKEN").ok(): Some only for a variable that is set to
\* valid Unicode.
EnvVarOk(e) == IF e.tag = "unicode" THEN Some(e.val) ELSE None

\* token_ok with the environment's override left out.
token_ok_builtin_only(header, e) ==
    header # None /\ ToStr(header[1]) = Some(Bearer \o TestToken)

\* The token_ok block of AuthGuardMiddleware::call; header is
\* req.headers().get(AUTHORIZATION), e the process environment's AUTH_TOKEN.
token_ok(header, e) ==
    IF header = None THEN FALSE
    ELSE LET str == ToStr(header[1])
         IN  IF str = None THEN FALSE
             ELSE IF StartsWith(str[1], Bearer)
                  THEN LET token == From(str[1], 7)
                           env_token == EnvVarOk(e)
                       IN  token = TestToken \/ env_token = Some(token)
                  ELSE FALSE

\* ----------------------------------------------------------- response shaper

\* Uuid's text forms: the hyphenated lower-case one Uuid::to_string writes, and
\* the others Uuid's parser reads as well.
UuidForms == {"hyphenated", "simple", "upper"}

\* Uuid::to_string
UuidToString(id) == [form |-> "hyphenated", hex |-> id]

\* Path<Uuid>'s parse of the path segment: Some(id), or None when malformed.
ParseUuid(text) == IF text.form \in UuidForms THEN Some(text.hex) ELSE None

\* DateTime<Utc>::to_rfc3339: date and time, then the UTC offset.
ToRfc3339(t) == <<"T", t, "+00:00">>

\* The projection with name and email taken from each other's field.
UserResponse_swapped(u) ==
    [id |-> UuidToString(u.id),
     name |-> u.email,
     email |-> u.name,
     created_at |-> ToRfc3339(u.created_at)]

\* impl From<User> for UserResponse
UserResponse(u) ==
    [id |-> UuidToString(u.id),
     name |-> u.name,
     email |-> u.email,
     created_at |-> ToRfc3339(u.created_at)]

\* rows.into_iter().map(UserResponse::from).collect()
RECURSIVE MapUserResponse(_)
MapUserResponse(rows) ==
    IF rows = <<>> THEN <<>>
    ELSE <<UserResponse(Head(rows))>> \o MapUserResponse(Tail(rows))

\* ------------------------------------------------------------ store gateway

\* A sqlx outcome: Ok(rows), or Err of the named sqlx::Error variant.
DbOk(rows) == [tag |-> "Ok", rows |-> rows]
DbErr(variant) == [tag |-> variant, rows |-> <<>>]

\* The orders in which a set of rows may be returned.
RECURSIVE Orders(_)
Orders(S) ==
    IF S = {} THEN {<<>>}
    ELSE UNION {{<<x>> \o rest : rest \in Orders(S \ {x})} : x \in S}

\* The SELECT ordering by created_at ascending.
SelectAll_ascending(table) ==
    {s \in Orders(table) :
        \A i \in 1..Len(s) : \A j \in 1..Len(s) :
            i < j => s[i].created_at <= s[j].created_at}

\* SELECT ... FROM users ORDER BY created_at DESC: every row once, later
\* created_at first; rows of equal created_at in any order.
SelectAll(table) ==
    {s \in Orders(table) :
        \A i \in 1..Len(s) : \A j \in 1..Len(s) :
            i < j => s[i].created_at >= s[j].created_at}

\* SELECT ... FROM users WHERE id = $1 with fetch_one: the row, or RowNotFound.
SelectById(table, id) ==
    IF \E u \in table : u.id = id
    THEN DbOk(<<CHOOSE u \in table : u.id = id>>)
    ELSE DbErr("RowNotFound")

\* The table without UNIQUE on email.
Violates_pk_only(table, row) == \E u \in table : u.id = row.id

\* The constraints of the users table: id PRIMARY KEY, email UNIQUE.
Violates(table, row) ==
    \E u \in table : u.id = row.id \/ u.email = row.email

\* The INSERT into a table that has no constraint.
Insert_unconstrained(table, name, email, id, t) ==
    LET row == [id |-> id, name |-> name, email |-> email, created_at |-> t]
    IN  [table |-> table \cup {row}, out |-> DbOk(<<row>>)]

\* The INSERT with ON CONFLICT (email) DO UPDATE: the row of that email is
\* overwritten.
Insert_upsert(table, name, email, id, t) ==
    LET row == [id |-> id, name |-> name, email |-> email, created_at |-> t]
    IN  IF \E u \in table : u.email = email
        THEN LET old == CHOOSE u \in table : u.email = email
                 new == [old EXCEPT !.name = name, !.created_at = t]
             IN  [table |-> (table \ {old}) \cup {new}, out |-> DbOk(<<new>>)]
        ELSE IF \E u \in table : u.id = id
             THEN [table |-> table, out |-> DbErr("Database")]
             ELSE [table |-> table \cup {row}, out |-> DbOk(<<row>>)]

\* INSERT INTO users (name, email) VALUES ($1, $2) RETURNING ...: id is the
\* DEFAULT gen_random_uuid() drew, t the DEFAULT NOW(). The new table and the
\* outcome.
Insert(table, name, email, id, t) ==
    LET row == [id |-> id, name |-> name, email |-> email, created_at |-> t]
    IN  IF Violates(table, row)
        THEN [table |-> table, out |-> DbErr("Database")]
        ELSE [table |-> table \cup {row}, out |-> DbOk(<<row>>)]

\* ---------------------------------------------------------------- responses

\* HttpResponse::Unauthorized().json({"error": "unauthorized"})
Unauthorized == [status |-> 401, body |-> [error |-> "unauthorized"]]

\* HttpResponse::BadRequest().json({"error": "validation_failed", "details": errors})
ValidationFailed(errors) ==
    [status |-> 400, body |-> [error |-> "validation_failed", details |-> errors]]

\* HttpResponse::NotFound().json({"error": "not_found"})
NotFound == [status |-> 404, body |-> [error |-> "not_found"]]

\* ActixError::from(e) of a sqlx::Error: the server error whose body is the
\* error's own text.
ServerError(e) == [status |-> 500, body |-> [text |-> e.tag]]

\* The Path<Uuid> extractor's error: the handler is not entered.
PathError == [status |-> 404, body |-> [text |-> "path"]]

\* HttpResponse::Ok().json(resp) of get_user, HttpResponse::Created().json(resp)
Ok(u) == [status |-> 200, body |-> u]
\* HttpResponse::Ok() where create_user has HttpResponse::Created().
Created_as_ok(u) == [status |-> 200, body |-> u]
Created(u) == [status |-> 201, body |-> u]

\* HttpResponse::Ok().json(resp) of list_users: a JSON array.
OkList(us) == [status |-> 200, body |-> [items |-> us]]

\* ----------------------------------------------------------------- requests

NoText == [form |-> "none", hex |-> 0]
NoBody == [name |-> <<>>, email |-> <<>>]
NoDb == [tag |-> "none", rows |-> <<>>]
NoResp == [status |-> 0, body |-> [error |-> "none"]]

\* No request. Of a request: pc is where it stands, log the stages it went
\* through, errors the validator's list, db the store's outcome, resp the
\* response. History: env_at is AUTH_TOKEN as it stood when the gate decided,
\* seen the rows its statement met.
Idle ==
    [pc |-> "idle", kind |-> "none", header |-> None, path |-> NoText,
     body |-> NoBody, log |-> <<>>, errors |-> <<>>,
     db |-> NoDb, resp |-> NoResp, env_at |-> Unset, seen |-> {}]

\* The requests of the routes of config: GET /users/, POST /users/ with a
\* NewUser body, GET /users/{id}.
ListReq(h) == [kind |-> "list", header |-> h, path |-> NoText, body |-> NoBody]
GetReq(h, p) == [kind |-> "get", header |-> h, path |-> p, body |-> NoBody]
CreateReq(h, b) == [kind |-> "create", header |-> h, path |-> NoText, body |-> b]

AltToken == <<"s">>


\* What clients send while several requests are in flight: every request with
\* the built-in credential, and a list with none.
Valid == Some(Bearer \o TestToken)
Garbage == [form |-> "garbage", hex |-> 0]
Paths ==
    {[form |-> "simple", hex |-> 1], Garbage, UuidToString(MaxUsers)}
Email1 == <<"a", "@", "b", ".", "c">>
Email2 == <<"d", "@", "b", ".", "c">>
Bodies ==
    {[name |-> <<"B">>, email |-> Email1],
     [name |-> <<" ", "B">>, email |-> Email2],
     [name |-> <<" ">>, email |-> Email1],
     [name |-> <<"B">>, email |-> <<"a", "@", "b">>]}
Inputs ==
    {ListReq(h) : h \in {None, Valid}}
    \cup {GetReq(Valid, p) : p \in Paths}
    \cup {CreateReq(Valid, b) : b \in Bodies}

\* What one client after another sends to the gate, and what the environment
\* may hold: credentials of every shape on the list route, and the other
\* routes without a credential or without its scheme.
NonAsciiToken == <<"U+00E9">>
GateHeaders ==
    {None,
     Valid,
     Some(Bearer \o AltToken),
     Some(Bearer),
     Some(Bearer \o NonAsciiToken),
     Some(<<"b", "e", "a", "r", "e", "r", " ">> \o TestToken),
     Some(TestToken),
     Some(<<"B", "e", "a", "r", "e", "r">> \o TestToken),
     Some(Bearer \o <<" ">> \o TestToken),
     Some(Bearer \o TestToken \o <<" ">>),
     Some(<<"B", "e">>)}
GateEnvs == {Unset, NotUnicode, Unicode(AltToken), Unicode(<<>>), Unicode(NonAsciiToken)}
GateInputs ==
    {ListReq(h) : h \in GateHeaders}
    \cup {GetReq(h, UuidToString(1)) : h \in {None, Some(TestToken)}}
    \cup {CreateReq(h, [name |-> <<"B">>, email |-> Email1]) :
            h \in {None, Some(TestToken)}}

\* The bodies put before the validator.
Names ==
    {<<>>, <<" ">>, <<" ", "\t">>, <<"B">>, <<" ", "B", " ">>, <<"B", " ", "C">>}
Emails ==
    {<<>>,
     <<"a", "b">>,
     <<"a", "@", "b">>,
     <<"@", "b", ".", "c">>,
     <<"a", "@", ".", "c">>,
     <<"a", "@", "b", ".">>,
     <<"a", "@", "@", "b", ".", "c">>,
     <<"a", "@", "b", ".", "c", "@", "d">>,
     <<"a", " ", "b", "@", "c", ".", "d">>,
     <<"a", "@", "b", " ", ".", "c">>,
     <<"a", "@", "b", ".", "c", " ">>,
     <<"@">>,
     <<".">>,
     <<"a", ".", "b">>,
     Email1,
     <<"a", "@", ".", ".", "c">>,
     <<"a", ".", "b", "@", "c", ".", "d">>,
     <<"a", "@", "b", ".", "c", ".", "d">>}
ValidateInputs == {CreateReq(Valid, [name |-> n, email |-> e]) : n \in Names, e \in Emails}

\* ----------------------------------------------------------------- handlers

\* list_users up to its .await: the query is issued.
list_users(q) == [q EXCEPT !.pc = "awaiting", !.log = @ \o <<"handler", "store">>]

\* get_user up to its .await: Path<Uuid> extracts the id, then the query is
\* issued; a malformed id ends the request in the extractor.
get_user(q) ==
    IF ParseUuid(q.path) = None
    THEN [q EXCEPT !.pc = "done", !.log = @ \o <<"extract">>, !.resp = PathError]
    ELSE [q EXCEPT !.pc = "awaiting",
                   !.log = @ \o <<"extract", "handler", "store">>]

\* create_user dropping the validator's result.
create_user_ignores_errors(q) ==
    [q EXCEPT !.pc = "awaiting",
              !.log = @ \o <<"extract", "handler", "validate", "store">>]

\* create_user issuing its INSERT before it validates.
create_user_insert_first(q) ==
    [q EXCEPT !.pc = "awaiting",
              !.log = @ \o <<"extract", "handler", "store", "validate">>]

\* create_user up to its .await: validate_new_user, then the BadRequest
\* response or the INSERT is issued.
create_user(q) ==
    LET errors == validate_new_user(q.body)
    IN  IF errors # <<>>
        THEN [q EXCEPT !.pc = "done", !.errors = errors,
                       !.log = @ \o <<"extract", "handler", "validate">>,
                       !.resp = ValidationFailed(errors)]
        ELSE [q EXCEPT !.pc = "awaiting",
                       !.log = @ \o <<"extract", "handler", "validate", "store">>]

\* The routes of config.
Route(q) ==
    CASE q.kind = "list" -> list_users(q)
      [] q.kind = "get" -> get_user(q)
      [] q.kind = "create" -> create_user(q)

\* The scope without its gate: every request is forwarded.
AuthGuard_open(q, e) == Route([q EXCEPT !.log = @ \o <<"auth">>])

\* The gate taking the Authorization header out of the request it forwards.
AuthGuard_strips(q, e) ==
    IF token_ok(q.header, e)
    THEN Route([q EXCEPT !.log = @ \o <<"auth">>, !.header = None])
    ELSE [q EXCEPT !.pc = "done", !.log = @ \o <<"auth">>, !.resp = Unauthorized]

\* AuthGuardMiddleware::call: self.service.call(req) when token_ok, else the
\* Unauthorized response.
AuthGuard(q, e) ==
    IF token_ok(q.header, e)
    THEN Route([q EXCEPT !.log = @ \o <<"auth">>])
    ELSE [q EXCEPT !.pc = "done", !.log = @ \o <<"auth">>, !.resp = Unauthorized]

\* list_users with unwrap_or_default() for the ?: a failed query is an empty
\* listing.
list_users_done_swallows(q) ==
    IF q.db.tag = "Ok" THEN OkList(MapUserResponse(q.db.rows)) ELSE OkList(<<>>)

\* list_users after its .await
list_users_done(q) ==
    IF q.db.tag = "Ok" THEN OkList(MapUserResponse(q.db.rows)) ELSE ServerError(q.db)

\* get_user without its RowNotFound arm.
get_user_done_no_404(q) ==
    IF q.db.tag = "Ok" THEN Ok(UserResponse(q.db.rows[1])) ELSE ServerError(q.db)

\* get_user after its .await
get_user_done(q) ==
    IF q.db.tag = "Ok" THEN Ok(UserResponse(q.db.rows[1]))
    ELSE IF q.db.tag = "RowNotFound" THEN NotFound
    ELSE ServerError(q.db)

\* create_user after its .await
create_user_done(q) ==
    IF q.db.tag = "Ok" THEN Created(UserResponse(q.db.rows[1])) ELSE ServerError(q.db)

\* The handler resumes with the store's outcome and responds.
Resume(q, out) ==
    LET p == [q EXCEPT !.db = out]
    IN  [p EXCEPT !.pc = "done",
                  !.resp = CASE q.kind = "list" -> list_users_done(p)
                             [] q.kind = "get" -> get_user_done(p)
                             [] q.kind = "create" -> create_user_done(p)]

\* -------------------------------------------------------------------- level

\* struct Cell(pub i32, pub i32)
Cell(a, b) == <<a, b>>

\* n as i32 of a usize n below 2^32: the low 32 bits, read as two's complement.
AsI32(n) == IF n <= 2147483647 THEN n ELSE n - 2147483647 - 2147483647 - 2

\* The loop body with its coordinates the other way round.
Push_swapped(cells, x, y) == Append(cells, Cell(AsI32(y), AsI32(x)))

\* cells.push(Cell(x as i32, y as i32))
Push(cells, x, y) == Append(cells, Cell(AsI32(x), AsI32(y)))

\* struct Level
Level(width, height, cells) == [width |-> width, height |-> height, cells |-> cells]

\* No call of Level::new. Of a call: width and height are its arguments, y
\* and x the loop variables, cells the local vector, ret the value returned.
NoLevel ==
    [pc |-> "idle", width |-> 0, height |-> 0, y |-> 0, x |-> 0, cells |-> <<>>,
     ret |-> Level(0, 0, <<>>)]

\* ------------------------------------------------------------------ actions

\* req is the bag of the requests awaiting the store, sent the exchange the
\* latest completion ended, issued the 201 bodies delivered so far.
Init ==
    /\ env = Unset
    /\ users = {}
    /\ req = EmptyBag
    /\ sent = Idle
    /\ issued = {}
    /\ level = NoLevel

\* The response of q goes out; a 201 tells the client the new identifier.
Respond(q) ==
    /\ sent' = q
    /\ issued' = IF q.resp.status = 201 THEN issued \cup {q.resp.body} ELSE issued

\* A request arrives in the scope: the gate decides it and, when it passes,
\* the routed handler runs to its first .await or to its response.
Call(in) ==
    /\ BagCardinality(req) < MaxInFlight
    /\ LET q == AuthGuard(
                  [Idle EXCEPT
                     !.kind = in.kind, !.header = in.header, !.path = in.path,
                     !.body = in.body,
                     !.env_at = env],
                  env)
       IN  IF q.pc = "done"
           THEN Respond(q) /\ UNCHANGED req
           ELSE req' = req (+) SetToBag({q}) /\ UNCHANGED <<sent, issued>>
    /\ UNCHANGED <<env, users, level>>

\* The store executes the statement the handler of q awaits and the handler
\* resumes. The INSERT commits by itself; its RETURNING row may be lost on the
\* way back (the connection fails), and the handler then resumes with the
\* error although the row is in the table.
StoreExec(q) ==
    /\ BagIn(q, req)
    /\ \/ /\ q.kind = "list"
          /\ \E s \in SelectAll(users) :
                Respond(Resume([q EXCEPT !.seen = users], DbOk(s)))
          /\ UNCHANGED users
       \/ /\ q.kind = "get"
          /\ LET id == ParseUuid(q.path)[1]
             IN  Respond(Resume([q EXCEPT !.seen = {u \in users : u.id = id}],
                                SelectById(users, id)))
          /\ UNCHANGED users
       \/ /\ q.kind = "create"
          /\ \E id \in Ids, t \in Times :
                LET res == Insert(users, q.body.name, q.body.email, id, t)
                    lost == IF res.out.tag = "Ok" THEN {DbErr("Io")} ELSE {}
                IN  \E out \in {res.out} \cup lost :
                        /\ users' = res.table
                        /\ Respond(Resume(
                              [q EXCEPT !.seen = {u \in users : u.email = q.body.email}],
                              out))
    /\ req' = req (-) SetToBag({q})
    /\ UNCHANGED <<env, level>>

\* The statement fails in the pool or on the connection, nothing is executed,
\* and the handler resumes with the error.
StoreFault(q) ==
    /\ BagIn(q, req)
    /\ Respond(Resume(q, DbErr("Io")))
    /\ req' = req (-) SetToBag({q})
    /\ UNCHANGED <<env, users, level>>

\* The process environment changes.
SetEnv(e) ==
    /\ e # env
    /\ env' = e
    /\ UNCHANGED <<users, req, sent, issued, level>>

\* Several clients at once before the whole API, AUTH_TOKEN left unset.
Next ==
    \/ \E in \in Inputs : Call(in)
    \/ \E q \in BagToSet(req) : StoreExec(q)
    \/ \E q \in BagToSet(req) : StoreFault(q)

Spec == Init /\ [][Next]_vars

\* The gate before clients with credentials of every shape, while the
\* environment changes.
NextGate ==
    \/ \E e \in GateEnvs : SetEnv(e)
    \/ \E in \in GateInputs : Call(in)
    \/ \E q \in BagToSet(req) : StoreExec(q)
    \/ \E q \in BagToSet(req) : StoreFault(q)

SpecGate == Init /\ [][NextGate]_vars

\* The validator before bodies of every shape, the store being down.
NextValidate ==
    \/ \E in \in ValidateInputs : Call(in)
    \/ \E q \in BagToSet(req) : StoreFault(q)

SpecValidate == Init /\ [][NextValidate]_vars

\* Level::new(width, height) is called: cells is the empty vector, the outer
\* loop starts at y = 0.
LevelNew(width, height) ==
    /\ level.pc = "idle"
    /\ level' = [level EXCEPT !.pc = "rows", !.width = width, !.height = height,
                               !.y = 0, !.x = 0, !.cells = <<>>]
    /\ UNCHANGED <<env, users, req, sent, issued>>

\* for y in 0..height: the inner loop starts at x = 0, or the outer loop ends.
LevelRow ==
    /\ level.pc = "rows"
    /\ level' = IF level.y < level.height
                THEN [level EXCEPT !.pc = "cols", !.x = 0]
                ELSE [level EXCEPT !.pc = "return"]
    /\ UNCHANGED <<env, users, req, sent, issued>>

\* for x in 0..width: one push, or the inner loop ends and y advances.
LevelCol ==
    /\ level.pc = "cols"
    /\ level' = IF level.x < level.width
                THEN [level EXCEPT !.cells = Push(level.cells, level.x, level.y),
                                   !.x = level.x + 1]
                ELSE [level EXCEPT !.pc = "rows", !.y = level.y + 1]
    /\ UNCHANGED <<env, users, req, sent, issued>>

\* Level { width, height, cells }
LevelReturn ==
    /\ level.pc = "return"
    /\ level' = [level EXCEPT !.pc = "done",
                               !.ret = Level(level.width, level.height, level.cells)]
    /\ UNCHANGED <<env, users, req, sent, issued>>

\* Level::new called with every width and height up to MaxDim.
NextLevel ==
    \/ \E width \in 0..MaxDim, height \in 0..MaxDim : LevelNew(width, height)
    \/ LevelRow
    \/ LevelCol
    \/ LevelReturn

SpecLevel == Init /\ [][NextLevel]_vars

\* q is the request in of a client.
Same(q, in) ==
    q.kind = in.kind /\ q.header = in.header /\ q.path = in.path /\ q.body = in.body

\* The request in of a client awaits the store.
Pending(in) == \E q \in BagToSet(req) : Same(q, in)

\* The store call of the request in returns, with rows or with an error.
Returns(in) ==
    \E q \in BagToSet(req) : Same(q, in) /\ (StoreExec(q) \/ StoreFault(q))

\* One client for each request, who waits for the response before sending the
\* request again; every store call returns.
LiveInputs ==
    {ListReq(Valid),
     GetReq(Valid, UuidToString(MaxUsers)),
     CreateReq(Valid, [name |-> <<"B">>, email |-> Email1]),
     CreateReq(Valid, [name |-> <<"B">>, email |-> <<"a", "@", "b">>])}
NextLive ==
    \/ \E in \in LiveInputs : ~Pending(in) /\ Call(in)
    \/ \E q \in BagToSet(req) : StoreExec(q)
    \/ \E q \in BagToSet(req) : StoreFault(q)

SpecLive ==
    Init /\ [][NextLive]_vars /\ \A in \in LiveInputs : WF_vars(Returns(in))

\* ------------------------------------------------------------------- claims

\* The exchanges a state holds: those awaiting the store and the one the
\* latest completion ended.
Exchanges == BagToSet(req) \cup (IF sent.pc = "done" THEN {sent} ELSE {})

\* The place of a stage in a log, 0 when the request did not go through it.
Pos(log, stage) ==
    IF \E i \in 1..Len(log) : log[i] = stage
    THEN CHOOSE i \in 1..Len(log) : log[i] = stage
    ELSE 0

\* The request went past the gate.
Forwarded(q) == Len(q.log) > 1

VisibleAscii(s) == \A i \in 1..Len(s) : s[i] \notin NonAscii

\* The header values that carry a valid credential under environment e: the
\* built-in token, and the override when it is text a header can carry.
Credentials(e) ==
    {Some(Bearer \o TestToken)}
    \cup (IF e.tag = "unicode" /\ VisibleAscii(e.val) THEN {Some(Bearer \o e.val)} ELSE {})

\* The same with any configured text as the override.
CredentialsAnyText(e) ==
    {Some(Bearer \o TestToken)}
    \cup (IF e.tag = "unicode" THEN {Some(Bearer \o e.val)} ELSE {})

\* C1: a request of any route without a valid bearer credential is answered
\* 401 with the body {"error":"unauthorized"}; its handler is not entered and
\* no statement of it reaches the store.
C1_UnauthorizedShortCircuits ==
    /\ \A q \in BagToSet(req) : q.header \in Credentials(q.env_at)
    /\ (sent.pc = "done" /\ sent.header \notin Credentials(sent.env_at)) =>
          /\ sent.resp.status = 401
          /\ sent.resp.body = [error |-> "unauthorized"]
          /\ sent.log = <<"auth">>
          /\ sent.db = NoDb
          /\ sent.seen = {}

C1_Witness ==
    /\ sent.pc = "done"
    /\ sent.kind = "create"
    /\ sent.header = Some(TestToken)
    /\ sent.resp.status = 401

\* C2 as claimed: the gate forwards a request exactly when its Authorization
\* header is "Bearer <token>" with <token> the built-in token or the
\* configured override, whatever the override's text.
C2_AsClaimed ==
    \A q \in Exchanges : Forwarded(q) <=> q.header \in CredentialsAnyText(q.env_at)

\* C2, amended: the gate forwards a request exactly when its Authorization
\* header is present, is visible ASCII text of the form "Bearer <token>", and
\* <token> is the built-in token or the configured override; the built-in
\* token is taken under every environment, and nothing else is when no
\* override is configured.
C2_AuthorizedIff ==
    \A q \in Exchanges :
        /\ Forwarded(q) <=> q.header \in Credentials(q.env_at)
        /\ q.header = Some(Bearer \o TestToken) => Forwarded(q)
        /\ (q.env_at.tag # "unicode" /\ Forwarded(q)) => q.header = Some(Bearer \o TestToken)

C2_Witness ==
    /\ sent.pc = "done"
    /\ sent.header = Some(Bearer \o AltToken)
    /\ sent.env_at = Unicode(AltToken)
    /\ sent.resp.status = 200

\* C3: within a request the gate decides first, the validator runs after the
\* gate, and a statement is issued to the store only after the gate and, for
\* a create, after the validator found no violation; each stage runs once.
C3_StagesInOrder ==
    \A q \in Exchanges :
        /\ q.log # <<>> /\ q.log[1] = "auth"
        /\ \A i, j \in 1..Len(q.log) : i < j => q.log[i] # q.log[j]
        /\ Pos(q.log, "validate") > 0 => Pos(q.log, "auth") < Pos(q.log, "validate")
        /\ Pos(q.log, "store") > 0 => Pos(q.log, "auth") < Pos(q.log, "store")
        /\ (q.kind = "create" /\ Pos(q.log, "store") > 0) =>
              /\ Pos(q.log, "validate") > 0
              /\ Pos(q.log, "validate") < Pos(q.log, "store")
              /\ q.errors = <<>>
        /\ q.db # NoDb => Pos(q.log, "store") > 0

C3_Witness ==
    /\ sent.pc = "done"
    /\ sent.kind = "create"
    /\ sent.db.tag = "Ok"
    /\ sent.log = <<"auth", "extract", "handler", "validate", "store">>

\* A name with nothing but whitespace in it.
NameBlank(name) == \A i \in 1..Len(name) : name[i] \in Whitespace

\* An email with no whitespace and exactly one "@", which is not its first
\* character and is followed by at least one character, a ".", and at least
\* one more character.
EmailWellFormed(email) ==
    LET ats == {i \in 1..Len(email) : email[i] = "@"}
    IN  /\ Cardinality(ats) = 1
        /\ \A i \in 1..Len(email) : email[i] \notin Whitespace
        /\ \A at \in ats :
              /\ at > 1
              /\ \E j \in (at + 2)..(Len(email) - 1) : email[j] = "."

\* The codes of the rules a body violates, the name's before the email's.
ExpectedCodes(body) ==
    (IF NameBlank(body.name) THEN <<"name_required">> ELSE <<>>)
    \o (IF EmailWellFormed(body.email) THEN <<>> ELSE <<"email_invalid">>)

\* C4: an authorized create whose body violates a rule is answered 400 with
\* {"error":"validation_failed","details":[every violated rule's code]}, no
\* statement of it is issued to the store, and no row of the table comes from
\* such a body.
C4_ValidationFailureIs400 ==
    /\ \A q \in BagToSet(req) : q.kind = "create" => ExpectedCodes(q.body) = <<>>
    /\ \A u \in users : ExpectedCodes([name |-> u.name, email |-> u.email]) = <<>>
    /\ (/\ sent.pc = "done"
        /\ sent.kind = "create"
        /\ Forwarded(sent)
        /\ ExpectedCodes(sent.body) # <<>>) =>
          /\ sent.resp.status = 400
          /\ sent.resp.body =
                [error |-> "validation_failed", details |-> ExpectedCodes(sent.body)]
          /\ Pos(sent.log, "store") = 0
          /\ sent.db = NoDb
          /\ sent.seen = {}

C4_Witness ==
    /\ sent.pc = "done"
    /\ sent.resp.status = 400
    /\ sent.resp.body.details = <<"email_invalid">>
    /\ users # {}

\* C5: the validator's failure list is exactly the codes of the violated
\* rules, name_required (the name is empty or all whitespace) before
\* email_invalid (the email does not match the pattern), each at most once;
\* the 400 body carries that list.
C5_AllViolationsInOrder ==
    \A q \in Exchanges :
        Pos(q.log, "validate") > 0 =>
            /\ q.errors = ExpectedCodes(q.body)
            /\ q.errors # <<>> => q.resp.body.details = ExpectedCodes(q.body)

C5_Witness ==
    /\ sent.pc = "done"
    /\ sent.body = [name |-> <<" ", "\t">>, email |-> <<"a", "@", "b">>]
    /\ sent.errors = <<"name_required", "email_invalid">>

\* C6: a create passes the validator, with no violation, exactly when its
\* name is not blank after trimming and its email matches the pattern.
C6_ValidIffBothRulesPass ==
    \A q \in Exchanges :
        Pos(q.log, "validate") > 0 =>
            /\ (q.errors = <<>> /\ Pos(q.log, "store") > 0)
                  <=> (~NameBlank(q.body.name) /\ EmailWellFormed(q.body.email))
            /\ (q.errors = <<>>) <=> (q.resp.status # 400)

C6_Witness ==
    \E q \in BagToSet(req) :
        /\ q.body.name = <<" ", "B", " ">>
        /\ q.body.email = <<"a", ".", "b", "@", "c", ".", "d">>
        /\ q.errors = <<>>
        /\ q.pc = "awaiting"

\* The store answered the statement of q (it did not fail on the way).
Answered(q) == q.db.tag \in {"Ok", "RowNotFound", "Database"}

\* The 201 bodies delivered so far that carry the identifier q asks for.
IssuedFor(q) == {b \in issued : ParseUuid(b.id) = ParseUuid(q.path)}

\* C7: a create answered 201 returns the submitted name and email and a
\* non-empty created_at; and whenever the store answers an authorized
\* get-by-id for an identifier a create was answered 201 with, whatever ran
\* in between, the get is answered 200 with the very body the create
\* returned.
C7_RoundTrip ==
    /\ (sent.pc = "done" /\ sent.kind = "create" /\ sent.resp.status = 201) =>
          /\ sent.resp.body.name = sent.body.name
          /\ sent.resp.body.email = sent.body.email
          /\ Len(sent.resp.body.created_at) > 0
          /\ sent.resp.body \in issued
    /\ (/\ sent.pc = "done"
        /\ sent.kind = "get"
        /\ Forwarded(sent)
        /\ IssuedFor(sent) # {}
        /\ Answered(sent)) =>
          /\ sent.resp.status = 200
          /\ IssuedFor(sent) = {sent.resp.body}
          /\ ParseUuid(sent.resp.body.id) = ParseUuid(sent.path)
          /\ Len(sent.resp.body.created_at) > 0

C7_Witness ==
    /\ sent.pc = "done"
    /\ sent.kind = "get"
    /\ sent.path.form = "simple"
    /\ IssuedFor(sent) # {}
    /\ sent.resp.status = 200
    /\ Cardinality(users) = 2

\* C8: when the store answers an authorized get-by-id for a well-formed
\* identifier that no row has, the response is 404 with {"error":"not_found"},
\* not a server error; and that response is given only to a get-by-id whose
\* statement the store answered with no matching row.
C8_NotFoundIs404 ==
    /\ (/\ sent.pc = "done"
        /\ sent.kind = "get"
        /\ Forwarded(sent)
        /\ ParseUuid(sent.path) # None
        /\ Answered(sent)
        /\ sent.seen = {}) =>
          /\ sent.resp.status = 404
          /\ sent.resp.body = [error |-> "not_found"]
    /\ (sent.pc = "done" /\ sent.resp.body = [error |-> "not_found"]) =>
          /\ sent.kind = "get"
          /\ sent.resp.status = 404
          /\ sent.db.tag = "RowNotFound"
          /\ sent.seen = {}

C8_Witness ==
    /\ sent.pc = "done"
    /\ sent.kind = "get"
    /\ sent.resp.status = 404
    /\ sent.db.tag = "RowNotFound"
    /\ users # {}

\* C9: when the store answers an authorized list, the response is 200 with
\* one entry for each row the table held when the statement ran, none
\* missing and none twice, later created_at first; an empty table gives 200
\* with the empty sequence.
C9_ListAllNewestFirst ==
    (sent.pc = "done" /\ sent.kind = "list" /\ Forwarded(sent) /\ Answered(sent)) =>
        /\ sent.resp.status = 200
        /\ LET items == sent.resp.body.items
           IN  /\ Len(items) = Cardinality(sent.seen)
               /\ {items[i] : i \in 1..Len(items)} = {UserResponse(u) : u \in sent.seen}
               /\ \A i, j \in 1..Len(items) :
                     i < j => items[i].created_at[2] >= items[j].created_at[2]
               /\ sent.seen = {} => items = <<>>

C9_Witness ==
    /\ sent.pc = "done"
    /\ sent.kind = "list"
    /\ sent.resp.status = 200
    /\ Len(sent.resp.body.items) = 2
    /\ sent.resp.body.items[1].created_at # sent.resp.body.items[2].created_at

\* C10: a create whose INSERT meets a row with the same email is not answered
\* 201 and adds no row: the table never holds two rows of one email, and the
\* row met stays in the table as it was and is what a select by its
\* identifier returns.
C10_DuplicateEmailAddsNothing ==
    /\ \A u, v \in users : u.email = v.email => u = v
    /\ (sent.pc = "done" /\ sent.kind = "create" /\ sent.seen # {}) =>
          /\ sent.resp.status >= 400
          /\ sent.seen \subseteq users
          /\ {u \in users : u.email = sent.body.email} = sent.seen
          /\ \A u \in sent.seen : SelectById(users, u.id) = DbOk(<<u>>)

C10_Witness ==
    /\ sent.pc = "done"
    /\ sent.kind = "create"
    /\ sent.seen # {}
    /\ sent.db.tag = "Database"
    /\ sent.resp.status = 500

\* C11: a create whose INSERT the store refuses for the UNIQUE constraint on
\* email is answered with a client error (409 or another 4xx), a response
\* other than the server error given to the other failures of the store.
C11_ConflictIsClientError ==
    (/\ sent.pc = "done"
     /\ sent.kind = "create"
     /\ sent.db.tag = "Database"
     /\ sent.seen # {}) =>
        /\ sent.resp.status \in 400..499
        /\ sent.resp.status # ServerError(DbErr("Io")).status

\* C12: an authorized get-by-id whose path identifier is malformed is
\* answered 400, neither not-found nor a server error, and no statement of it
\* reaches the store.
C12_MalformedIdIs400 ==
    (/\ sent.pc = "done"
     /\ sent.kind = "get"
     /\ sent.header \in Credentials(sent.env_at)
     /\ ParseUuid(sent.path) = None) =>
        /\ sent.resp.status = 400
        /\ Pos(sent.log, "store") = 0
        /\ sent.db = NoDb

\* C13: under any sequence of list, get-by-id and create requests no two rows
\* of the table share an email or an id, every row stays in the table as it
\* was written (none is updated or deleted), and every identifier handed out
\* in a 201 stays the identifier of the user it was handed out for.
C13_StoreInvariants ==
    [][/\ users \subseteq users'
       /\ \A u, v \in users' : (u.email = v.email \/ u.id = v.id) => u = v
       /\ \A u \in users' \ users : \A v \in users : u.id # v.id
       /\ \A b \in issued' : \E u \in users' : UserResponse(u) = b]_vars

C13_Witness ==
    /\ sent.pc = "done"
    /\ sent.kind = "create"
    /\ sent.db.tag = "Database"
    /\ sent.seen = {}
    /\ users # {}

\* C14: every failure response (401, 400, 404, 500) has a body with a
\* machine-readable "error" code, and none carries the text of a store error.
C14_FailureBodiesCoded ==
    (sent.pc = "done" /\ sent.resp.status >= 400) =>
        /\ "error" \in DOMAIN sent.resp.body
        /\ "text" \notin DOMAIN sent.resp.body

\* How many times a stage stands in a log.
Times_In(log, stage) == Cardinality({i \in 1..Len(log) : log[i] = stage})

\* C15: a request issues at most one statement and is answered once, when
\* the statement returns; a statement that fails with a fault other than
\* not-found or a constraint is answered with a 5xx, never with a success;
\* and, every store call returning, each request that awaits the store
\* comes to be answered.
C15_TerminalAfterOnePass ==
    /\ [](/\ \A q \in BagToSet(req) :
                /\ q.pc = "awaiting" /\ q.resp = NoResp /\ q.db = NoDb
                /\ Times_In(q.log, "store") = 1
           /\ sent.pc = "done" =>
                /\ sent.resp # NoResp
                /\ Times_In(sent.log, "store") <= 1
                /\ sent.db # NoDb => Times_In(sent.log, "store") = 1
                /\ sent.db.tag = "Io" => sent.resp.status \in 500..599)
    /\ [][\A in \in LiveInputs :
            (Pending(in) /\ ~Pending(in)') =>
                /\ sent'.pc = "done" /\ Same(sent', in) /\ sent'.db # NoDb
                /\ BagCardinality(req') = BagCardinality(req) - 1]_vars
    /\ \A in \in LiveInputs : Pending(in) ~> ~Pending(in)

C15_Witness ==
    /\ sent.pc = "done"
    /\ sent.kind = "list"
    /\ sent.db.tag = "Io"
    /\ sent.resp.status = 500
    /\ BagCardinality(req) = MaxInFlight

Ungated(in) ==
    Route([Idle EXCEPT !.kind = in.kind, !.header = in.header, !.path = in.path,
                       !.body = in.body, !.env_at = env, !.log = <<"auth">>])

\* C17: a request with a valid credential goes through the gate as it came
\* and fares as it does at its handler alone: it is answered at once with the
\* handler's response, or awaits the store with the statement the handler
\* issues, and when the statement returns the response is the handler's.
C17_GateTransparent ==
    [][/\ \A in \in LiveInputs :
            (in.header \in Credentials(env) /\ Call(in)) =>
                LET u == Ungated(in)
                IN  IF u.pc = "done"
                    THEN sent' = u /\ req' = req
                    ELSE req' = req (+) SetToBag({u}) /\ sent' = sent
       /\ (sent'.pc = "done" /\ sent'.db # NoDb) =>
            sent'.resp = CASE sent'.kind = "list" -> list_users_done(sent')
                           [] sent'.kind = "get" -> get_user_done(sent')
                           [] sent'.kind = "create" -> create_user_done(sent')]_vars

C17_Witness ==
    /\ sent.pc = "done"
    /\ sent.kind = "get"
    /\ sent.header = Valid
    /\ sent.path = UuidToString(MaxUsers)
    /\ sent.resp.status = 200
    /\ req # EmptyBag

\* C18: the tokens the gate accepts are fixed when the gate is built: two
\* requests with the same Authorization header get the same decision,
\* whatever became of the process environment between them.
C18_DecisionFixedAtConstruction ==
    \A p, q \in Exchanges : p.header = q.header => (Forwarded(p) <=> Forwarded(q))

\* C19: however creates with the same valid email interleave, at most one of
\* them is answered 201 and the table holds one row of that email once one of
\* them was answered 201 or refused for the email; a step of one request
\* leaves the other requests in flight as they were, and what a create is
\* answered is settled by the rows the table holds when its INSERT runs.
C19_ConcurrentCreates ==
    [][/\ \A a, b \in issued' : a.email = b.email => a = b
       /\ \A u, v \in users' : u.email = v.email => u = v
       /\ (/\ sent'.pc = "done"
           /\ sent'.kind = "create"
           /\ (sent'.resp.status = 201 \/ sent'.seen # {})) =>
             Cardinality({u \in users' : u.email = sent'.body.email}) = 1
       /\ \/ req \sqsubseteq req' /\ BagCardinality(req') <= BagCardinality(req) + 1
          \/ req' \sqsubseteq req /\ BagCardinality(req') = BagCardinality(req) - 1
       /\ (BagCardinality(req') < BagCardinality(req) /\ sent'.kind = "create") =>
             LET met == {u \in users : u.email = sent'.body.email}
             IN  /\ Answered(sent') => sent'.seen = met
                 /\ met # {} => (sent'.resp.status = 500 /\ users' = users)
                 /\ sent'.resp.status = 201 =>
                       /\ met = {}
                       /\ \E u \in users' \ users :
                             /\ users' = users \cup {u}
                             /\ UserResponse(u) = sent'.resp.body]_vars

C19_Witness ==
    /\ sent.pc = "done"
    /\ sent.kind = "create"
    /\ sent.resp.status = 201
    /\ \E q \in BagToSet(req) : q.kind = "create" /\ q.body = sent.body

\* The step ends an exchange: sent' is the exchange it ended.
Ended == BagCardinality(req') <= BagCardinality(req)

\* The step adds one row, of the name and email of the create it ended, and
\* leaves the rows there were.
AddsOne ==
    \E u \in users' \ users :
        /\ users' = users \cup {u}
        /\ u.name = sent'.body.name
        /\ u.email = sent'.body.email
        /\ sent'.resp.status = 201 => UserResponse(u) = sent'.resp.body

\* C20 as claimed: the table changes only in the step that ends a create
\* with 201, which adds one row and leaves the others; the steps that end a
\* list, a get, or any request with 401, 400, 404 or 500 leave the table as
\* it was.
C20_AsClaimed ==
    [][/\ users' # users =>
            (Ended /\ sent'.kind = "create" /\ sent'.resp.status = 201 /\ AddsOne)
       /\ (Ended /\ sent'.resp.status = 201) => users' # users
       /\ (Ended /\ (sent'.kind \in {"list", "get"}
                      \/ sent'.resp.status \in {401, 400, 404, 500})) =>
            users' = users]_vars

\* C20, amended: the table changes only in the step in which the INSERT of a
\* create runs, which adds one row and leaves the others; a create ended
\* with 201 has added the row it returns; the steps that end a list, a get,
\* or any request with 401, 400, 404 or the 500 of a refused INSERT leave the
\* table as it was; a create ended with 500 has changed the table only when
\* its INSERT had run and the result was lost on the way back.
C20_FrameEffect ==
    [][/\ users' # users =>
            /\ Ended /\ sent'.kind = "create" /\ AddsOne
            /\ sent'.resp.status \in {201, 500}
            /\ sent'.resp.status = 500 => (sent'.db.tag = "Io" /\ sent'.seen = {})
       /\ (Ended /\ sent'.resp.status = 201) => users' # users
       /\ (Ended /\ (sent'.kind \in {"list", "get"}
                      \/ sent'.resp.status \in {401, 400, 404}
                      \/ sent'.db.tag = "Database")) =>
            users' = users]_vars

C20_Witness ==
    /\ sent.pc = "done"
    /\ sent.kind = "create"
    /\ sent.db.tag = "Io"
    /\ sent.resp.status = 500
    /\ \E u \in users : u.email = sent.body.email /\ UserResponse(u) \notin issued
====
